---- MODULE Spec2Model ----
(***************************************************************************)
(* Model of vt_utils::ustring (src/src/utils/ustring.cpp): the 16-bit      *)
(* code-unit string, its substring / concatenation / search operations,    *)
(* and the two conversion functions MakeUnicodeString and                  *)
(* MakeStandardString.                                                     *)
(*                                                                         *)
(* A ustring is modelled by its backing storage _str, a sequence of code   *)
(* units that carries the terminating 0.  size_t is W bits wide, so that   *)
(* the wrap-around of pos + n in substr is part of the model.  The model   *)
(* is the little-endian build (SDL_BYTEORDER == SDL_LIL_ENDIAN): lines     *)
(* 209-218 of the source are compiled out there.                           *)
(***************************************************************************)
EXTENDS Integers, Sequences, FiniteSets, TLC

\* ---------------------------------------------------------------- bounds
\* width of size_t in bits (64 in the program)
W == 5
\* longest content held by register u
MaxLen == 3
\* longest content held by register v
MaxPat == 2
\* longest input text of MakeUnicodeString, in bytes
MaxText == 4
\* longest run of units a read of released storage is modelled to show
MaxGarbage == 2

\* -------------------------------------------------------------- constants
SizeRange == 2 ^ W
SIZE_MAX == SizeRange - 1
npos == SIZE_MAX
\* std::vector<uint16_t>::max_size(): PTRDIFF_MAX / sizeof(uint16_t)
max_size == ((2 ^ (W - 1)) - 1) \div 2

\* code units the operations are driven with: the terminator value, the
\* largest single-byte value and the smallest value above it
Units == {0, 255, 256}

\* start positions the calls are driven with: each index of the longest
\* object, one past it, and the largest size_t
PosVals == (0..(MaxLen + 1)) \cup {SIZE_MAX}
\* counts: every size_t, the values for which pos + n wraps around included
NVals == 0..SIZE_MAX

Regs == {"u", "v"}
Cap(r) == IF r = "u" THEN MaxLen ELSE MaxPat

\* ---------------------------------------------------------- ustring class
\* ustring.h accessors
length(str) == Len(str) - 1
empty(str) == Len(str) <= 1
\* operator[]: 0-based read of the storage
At(str, i) == str[i + 1]

\* ustring::ustring()
ustring_default == <<0>>

\* the zero-terminated run of units at mem + off (0-based), terminator excluded
RECURSIVE CStr(_, _)
CStr(mem, off) ==
    IF off >= Len(mem) \/ mem[off + 1] = 0
    THEN <<>>
    ELSE <<mem[off + 1]>> \o CStr(mem, off + 1)

\* TRUE when reading the run at mem + off stays inside mem
Terminated(mem, off) == \E k \in (off + 1)..Len(mem) : mem[k] = 0

\* ustring::ustring(const uint16_t *s), s = NULL or a zero-terminated array
ustring_ptr(s) ==
    IF s.null THEN <<0>> ELSE CStr(s.mem, 0) \o <<0>>

\* vector::insert(begin() + at, first, last): units go in front of index at
InsertAt(str, at, units) ==
    SubSeq(str, 1, at) \o units \o SubSeq(str, at + 1, Len(str))

\* substr with the range check off by one (pos > len)
substr_gt(str, pos, n) ==
    LET len == length(str)
        n2 == IF n = SIZE_MAX \/ ((pos + n) % SizeRange) > len
              THEN len - pos
              ELSE n
    IN  IF pos > len
        THEN [status |-> "out_of_range", val |-> <<>>]
        ELSE IF n2 + 1 > max_size
        THEN [status |-> "length_error", val |-> <<>>]
        ELSE [status |-> "ok",
              val |-> SubSeq(str, pos + 1, pos + n2) \o <<0>>]

\* ustring::substr(pos, n): [status, val]
substr(str, pos, n) ==
    LET len == length(str)
        n2 == IF n = SIZE_MAX \/ ((pos + n) % SizeRange) > len
              THEN len - pos
              ELSE n
    IN  IF pos >= len
        THEN [status |-> "out_of_range", val |-> <<>>]
        ELSE IF n2 + 1 > max_size
        THEN [status |-> "length_error", val |-> <<>>]
        ELSE [status |-> "ok",
              val |-> SubSeq(str, pos + 1, pos + n2) \o <<0>>]

\* operator+=(uint16_t) that inserts at end() instead of end() - 1
append_unit_at_end(str, c) == InsertAt(str, Len(str), <<c>>)

\* ustring::operator+=(uint16_t c)
append_unit(str, c) == InsertAt(str, Len(str) - 1, <<c>>)

\* ustring::operator+=(const ustring &s).  With s the object itself the
\* inserted range lies in front of the insertion point and is read before it
\* is moved, so the result is the same concatenation.
append(str, s) ==
    IF empty(s)
    THEN str
    ELSE InsertAt(str, Len(str) - 1, SubSeq(s, 1, Len(s) - 1))

\* ustring::operator+(const ustring &s)
plus(str, s) == append(str, s)

\* the loop of find without the reset of chars_found on a mismatch
RECURSIVE find_loop_noreset(_, _, _, _)
find_loop_noreset(str, s, j, chars_found) ==
    LET len == length(str)
        total_chars == length(s)
        Step(eq) ==
            IF eq
            THEN IF chars_found + 1 = total_chars
                 THEN {j - (chars_found + 1) + 1}
                 ELSE find_loop_noreset(str, s, j + 1, chars_found + 1)
            ELSE find_loop_noreset(str, s, j + 1, chars_found)
    IN  IF j >= len
        THEN {npos}
        ELSE IF chars_found < Len(s)
        THEN Step(At(str, j) = At(s, chars_found))
        ELSE Step(TRUE) \cup Step(FALSE)

\* ustring::find(const ustring &s, size_t pos): the loop from index j with
\* chars_found units matched; the set of values the call can return.  A read
\* of s[chars_found] past the storage of s yields an arbitrary unit, so the
\* comparison can go either way.
RECURSIVE find_loop(_, _, _, _)
find_loop(str, s, j, chars_found) ==
    LET len == length(str)
        total_chars == length(s)
        Step(eq) ==
            IF eq
            THEN IF chars_found + 1 = total_chars
                 THEN {j - (chars_found + 1) + 1}
                 ELSE find_loop(str, s, j + 1, chars_found + 1)
            ELSE find_loop(str, s, j + 1, 0)
    IN  IF j >= len
        THEN {npos}
        ELSE IF chars_found < Len(s)
        THEN Step(At(str, j) = At(s, chars_found))
        ELSE Step(TRUE) \cup Step(FALSE)

find(str, s, pos) == find_loop(str, s, pos, 0)

\* std::string(const char *): the bytes in front of the first zero byte
RECURSIVE CString(_)
CString(bytes) ==
    IF bytes = <<>> \/ Head(bytes) = 0
    THEN <<>>
    ELSE <<Head(bytes)>> \o CString(Tail(bytes))

\* MakeStandardString(const ustring &text)
MakeStandardString(str) ==
    LET len == length(str)
        strbuff == [c \in 1..(len + 1) |->
                      IF c = len + 1 THEN 0
                      ELSE IF str[c] > 255 THEN 63 ELSE str[c] % 256]
    IN  CString(strbuff)

\* ------------------------------------------------------- transcoder model
\* bytes the input texts are made of: NUL, 'A', and the bytes of the UTF-8
\* forms of U+FEFF (EF BB BF) and U+FFFE (EF BF BE)
Bytes == {0, 65, 187, 190, 191, 239}

UTF_16_BOM_STD == 65279
UTF_16_BOM_REV == 65534

\* the test of line 205 without the byte-reversed mark
IsBOM_std_only(unit) == unit = UTF_16_BOM_STD

\* the test of line 205
IsBOM(unit) == unit = UTF_16_BOM_STD \/ unit = UTF_16_BOM_REV

IsCont(b) == b >= 128 /\ b <= 191

\* iconv, UTF-8 to UTF-16: the character that starts at src[i].  n is the
\* number of bytes it takes (0: an invalid or incomplete sequence), units the
\* code units written for it.
U8Char(src, i) ==
    LET b0 == src[i]
        avail == Len(src) - i + 1
        c(k) == src[i + k] - 128
        invalid == [n |-> 0, units |-> <<>>]
    IN  IF b0 < 128
        THEN [n |-> 1, units |-> <<b0>>]
        ELSE IF b0 >= 194 /\ b0 <= 223
        THEN IF avail >= 2 /\ IsCont(src[i + 1])
             THEN [n |-> 2, units |-> <<(b0 - 192) * 64 + c(1)>>]
             ELSE invalid
        ELSE IF b0 >= 224 /\ b0 <= 239
        THEN IF avail >= 3 /\ IsCont(src[i + 1]) /\ IsCont(src[i + 2])
             THEN LET cp == (b0 - 224) * 4096 + c(1) * 64 + c(2)
                  IN  IF cp < 2048 \/ (cp >= 55296 /\ cp <= 57343)
                      THEN invalid
                      ELSE [n |-> 3, units |-> <<cp>>]
             ELSE invalid
        ELSE IF b0 >= 240 /\ b0 <= 244
        THEN IF /\ avail >= 4
                /\ IsCont(src[i + 1]) /\ IsCont(src[i + 2]) /\ IsCont(src[i + 3])
             THEN LET cp == (b0 - 240) * 262144 + c(1) * 4096 + c(2) * 64 + c(3)
                  IN  IF cp < 65536 \/ cp > 1114111
                      THEN invalid
                      ELSE [n |-> 4,
                            units |-> <<55296 + ((cp - 65536) \div 1024),
                                        56320 + ((cp - 65536) % 1024)>>]
             ELSE invalid
        ELSE invalid

\* iconv(convertor, &sourceChar, &sourceLen, &destChar, &destLen) over the
\* whole of src from src[i] on: the units written, and whether it returned
\* without error.  It stops at the first sequence it cannot convert.
RECURSIVE iconv(_, _)
iconv(src, i) ==
    IF i > Len(src)
    THEN [ok |-> TRUE, units |-> <<>>]
    ELSE LET ch == U8Char(src, i)
         IN  IF ch.n = 0
             THEN [ok |-> FALSE, units |-> <<>>]
             ELSE LET more == iconv(src, i + ch.n)
                  IN  [ok |-> more.ok, units |-> ch.units \o more.units]

\* the destination buffer after iconv wrote units at its start
Written(buff, units) ==
    [k \in 1..Len(buff) |-> IF k <= Len(units) THEN units[k] ELSE buff[k]]

\* ubuff.push_back(text[c]): char to uint16_t, sign-extended where char is
\* a signed type
CharToUnit(b, char_signed) ==
    IF char_signed /\ b >= 128 THEN 65280 + b ELSE b

\* the loop of lines 220-223 with the terminator of the std::string as its
\* last character, and line 223
FallbackBuffer(buff, txt, char_signed) ==
    buff \o [c \in 1..(Len(txt) + 1) |->
               IF c = Len(txt) + 1 THEN 0 ELSE CharToUnit(txt[c], char_signed)]
         \o <<0>>

\* what a read through a pointer into released storage can show: the units
\* the storage held, or whatever took their place
GarbageUnits == {65, 256}
Garbage == UNION {[1..k -> GarbageUnits] : k \in 0..MaxGarbage}
StaleReads(old) == {CStr(old, 0)} \cup Garbage

\* ------------------------------------------------------------------ state
\* bufs: the storage _str of the two ustring objects u and v
\* last: the most recent call on them, with the objects as they were before
\* MakeUnicodeString in progress:
\*   dpc         the statement it is at
\*   text        its argument
\*   ubuff       the vector ubuff
\*   utf16String the index in ubuff that utf16String points to, -1 once
\*               ubuff was reallocated under it
\*   convertor   the number of open iconv handles
\*   acquired, released   iconv_open / iconv_close calls of this execution
\*   iconv_ret   whether iconv returned without error
\*   ret         the value returned by UTF8ToUTF16
\*   produced    the units the transcoder wrote
\*   new_ustr    the storage of the ustring returned
VARIABLES bufs, last, dpc, text, ubuff, utf16String, convertor, acquired,
          released, iconv_ret, ret, produced, new_ustr

uvars == <<bufs, last>>
dvars == <<dpc, text, ubuff, utf16String, convertor, acquired, released,
           iconv_ret, ret, produced, new_ustr>>
vars == <<bufs, last, dpc, text, ubuff, utf16String, convertor, acquired,
          released, iconv_ret, ret, produced, new_ustr>>

\* arrays a ustring can be constructed from
NullSource == [null |-> TRUE, mem |-> <<>>]
Sources(r) ==
    {NullSource} \cup
    {[null |-> FALSE, mem |-> m] :
        m \in {x \in UNION {[1..k -> Units] : k \in 1..(Cap(r) + 1)} :
                  Terminated(x, 0)}}

Call(op, r, s, pos, n, c, status, val, idx) ==
    [op |-> op, pre |-> bufs, r |-> r, s |-> s, pos |-> pos, n |-> n,
     c |-> c, status |-> status, val |-> val, idx |-> idx]

\* no call has returned since the caller last went on
NoCall ==
    [op |-> "none", pre |-> [r \in Regs |-> <<>>], r |-> "u", s |-> "u",
     pos |-> 0, n |-> 0, c |-> 0, status |-> "ok", val |-> <<>>, idx |-> 0]

Init ==
    /\ bufs = [r \in Regs |-> ustring_default]
    /\ last = NoCall
    /\ dpc = "idle"
    /\ text = <<>>
    /\ ubuff = <<>>
    /\ utf16String = 0
    /\ convertor = 0
    /\ acquired = 0
    /\ released = 0
    /\ iconv_ret = TRUE
    /\ ret = TRUE
    /\ produced = <<>>
    /\ new_ustr = <<>>

\* r = ustring()
Construct(r) ==
    /\ last.op = "none"
    /\ bufs' = [bufs EXCEPT ![r] = ustring_default]
    /\ UNCHANGED dvars
    /\ last' = Call("ctor", r, r, 0, 0, 0, "ok", ustring_default, 0)

\* r = ustring(src)
ConstructFrom(r) ==
    /\ last.op = "none"
    /\ \E src \in Sources(r) :
        /\ bufs' = [bufs EXCEPT ![r] = ustring_ptr(src)]
        /\ UNCHANGED dvars
        /\ last' = Call("ctor_ptr", r, r, 0, 0, 0, "ok", ustring_ptr(src), 0)

\* r += c
AppendUnit(r) ==
    /\ last.op = "none"
    /\ \E c \in Units :
        /\ length(bufs[r]) < Cap(r)
        /\ bufs' = [bufs EXCEPT ![r] = append_unit(bufs[r], c)]
        /\ UNCHANGED dvars
        /\ last' = Call("append_unit", r, r, 0, 0, c, "ok",
                        append_unit(bufs[r], c), 0)

\* r += s
AppendString(r, s) ==
    /\ last.op = "none"
    /\ length(bufs[r]) + length(bufs[s]) <= Cap(r)
    /\ bufs' = [bufs EXCEPT ![r] = append(bufs[r], bufs[s])]
    /\ UNCHANGED dvars
    /\ last' = Call("append", r, s, 0, 0, 0, "ok", append(bufs[r], bufs[s]), 0)

\* r + s, a temporary
Plus(r, s) ==
    /\ last.op = "none"
    /\ length(bufs[r]) + length(bufs[s]) <= MaxLen
    /\ bufs' = bufs
    /\ UNCHANGED dvars
    /\ last' = Call("plus", r, s, 0, 0, 0, "ok", plus(bufs[r], bufs[s]), 0)

\* r.substr(pos, n); the returned object is a temporary
Substr(r) ==
    /\ last.op = "none"
    /\ \E pos \in PosVals, n \in NVals :
        LET res == substr(bufs[r], pos, n)
        IN  /\ bufs' = bufs
            /\ UNCHANGED dvars
            /\ last' = Call("substr", r, r, pos, n, 0, res.status, res.val, 0)

\* r.find(s, pos)
Find(r, s) ==
    /\ last.op = "none"
    /\ \E pos \in PosVals :
        \E idx \in find(bufs[r], bufs[s], pos) :
            /\ bufs' = bufs
            /\ UNCHANGED dvars
            /\ last' = Call("find", r, s, pos, 0, 0, "ok", <<>>, idx)

\* MakeStandardString(r)
Encode(r) ==
    /\ last.op = "none"
    /\ bufs' = bufs
    /\ UNCHANGED dvars
    /\ last' = Call("encode", r, r, 0, 0, 0, "ok",
                    MakeStandardString(bufs[r]), 0)

\* the caller goes on: the returned value and the temporaries are gone
Resume ==
    /\ last.op # "none"
    /\ last' = NoCall
    /\ UNCHANGED bufs
    /\ UNCHANGED dvars

NextU ==
    \/ \E r \in Regs : Construct(r)
    \/ \E r \in Regs : ConstructFrom(r)
    \/ \E r \in Regs : AppendUnit(r)
    \/ \E r \in Regs, s \in Regs : AppendString(r, s)
    \/ \E r \in Regs, s \in Regs : Plus(r, s)
    \/ \E r \in Regs : Substr(r)
    \/ \E r \in Regs, s \in Regs : Find(r, s)
    \/ \E r \in Regs : Encode(r)
    \/ Resume

\* ------------------------------------------------------ MakeUnicodeString
Texts == UNION {[1..k -> Bytes] : k \in 0..MaxText}

\* MakeUnicodeString(text) is called: lines 198-202
Enter ==
    /\ dpc = "idle"
    /\ \E txt \in Texts :
        /\ text' = txt
        /\ ubuff' = [k \in 1..(Len(txt) + 1) |-> 0]
    /\ utf16String' = 0
    /\ acquired' = 0
    /\ released' = 0
    /\ produced' = <<>>
    /\ new_ustr' = <<>>
    /\ dpc' = "u8_entry"
    /\ UNCHANGED <<convertor, iconv_ret, ret>>
    /\ UNCHANGED uvars

\* UTF8ToUTF16, lines 165-167: nothing to convert
SourceEmpty ==
    /\ dpc = "u8_entry"
    /\ text = <<>>
    /\ ret' = TRUE
    /\ dpc' = "converted"
    /\ UNCHANGED <<text, ubuff, utf16String, convertor, acquired, released,
                   iconv_ret, produced, new_ustr>>
    /\ UNCHANGED uvars

\* UTF8ToUTF16, lines 169-172: iconv_open gives a handle
IconvOpen ==
    /\ dpc = "u8_entry"
    /\ text # <<>>
    /\ convertor' = convertor + 1
    /\ acquired' = acquired + 1
    /\ dpc' = "iconv"
    /\ UNCHANGED <<text, ubuff, utf16String, released, iconv_ret, ret,
                   produced, new_ustr>>
    /\ UNCHANGED uvars

\* UTF8ToUTF16, lines 169-172: iconv_open fails
IconvOpenFails ==
    /\ dpc = "u8_entry"
    /\ text # <<>>
    /\ ret' = FALSE
    /\ dpc' = "converted"
    /\ UNCHANGED <<text, ubuff, utf16String, convertor, acquired, released,
                   iconv_ret, produced, new_ustr>>
    /\ UNCHANGED uvars

\* UTF8ToUTF16, lines 182-186: the text and its terminating zero byte go
\* through the transcoder into ubuff
Iconv ==
    /\ dpc = "iconv"
    /\ LET out == iconv(text \o <<0>>, 1)
       IN  /\ ubuff' = Written(ubuff, out.units)
           /\ produced' = out.units
           /\ iconv_ret' = out.ok
    /\ dpc' = "close"
    /\ UNCHANGED <<text, utf16String, convertor, acquired, released, ret,
                   new_ustr>>
    /\ UNCHANGED uvars

\* UTF8ToUTF16 returning on the iconv error before it closes the handle
IconvClose_after_check ==
    /\ dpc = "close"
    /\ convertor' = IF iconv_ret THEN convertor - 1 ELSE convertor
    /\ released' = IF iconv_ret THEN released + 1 ELSE released
    /\ dpc' = "u8_ret"
    /\ UNCHANGED <<text, ubuff, utf16String, acquired, iconv_ret, ret,
                   produced, new_ustr>>
    /\ UNCHANGED uvars

\* UTF8ToUTF16, line 187
IconvClose ==
    /\ dpc = "close"
    /\ convertor' = convertor - 1
    /\ released' = released + 1
    /\ dpc' = "u8_ret"
    /\ UNCHANGED <<text, ubuff, utf16String, acquired, iconv_ret, ret,
                   produced, new_ustr>>
    /\ UNCHANGED uvars

\* UTF8ToUTF16, lines 188-192
U8Return ==
    /\ dpc = "u8_ret"
    /\ ret' = iconv_ret
    /\ dpc' = "converted"
    /\ UNCHANGED <<text, ubuff, utf16String, convertor, acquired, released,
                   iconv_ret, produced, new_ustr>>
    /\ UNCHANGED uvars

\* lines 203-207: the conversion succeeded, a leading byte order mark is
\* stepped over
SkipBOM ==
    /\ dpc = "converted"
    /\ ret
    /\ utf16String' = IF IsBOM(ubuff[1]) THEN 1 ELSE 0
    /\ dpc' = "wrap"
    /\ UNCHANGED <<text, ubuff, convertor, acquired, released, iconv_ret,
                   ret, produced, new_ustr>>
    /\ UNCHANGED uvars

\* lines 219-224: the conversion failed.  ubuff is full (size == capacity
\* == length), so the first push_back moves it and utf16String is left
\* pointing into the released storage.
Fallback ==
    /\ dpc = "converted"
    /\ ~ret
    /\ \E char_signed \in BOOLEAN :
        ubuff' = FallbackBuffer(ubuff, text, char_signed)
    /\ utf16String' = -1
    /\ dpc' = "wrap"
    /\ UNCHANGED <<text, convertor, acquired, released, iconv_ret, ret,
                   produced, new_ustr>>
    /\ UNCHANGED uvars

\* lines 226-227: ustring new_ustr(utf16String)
Wrap ==
    /\ dpc = "wrap"
    /\ \/ /\ utf16String >= 0
          /\ Terminated(ubuff, utf16String)
          /\ new_ustr' =
                ustring_ptr([null |-> FALSE,
                             mem |-> SubSeq(ubuff, utf16String + 1, Len(ubuff))])
       \/ /\ utf16String >= 0
          /\ ~Terminated(ubuff, utf16String)
          /\ \E g \in Garbage :
                new_ustr' = CStr(ubuff, utf16String) \o g \o <<0>>
       \/ /\ utf16String < 0
          /\ \E g \in StaleReads(SubSeq(ubuff, 1, Len(text) + 1)) :
                new_ustr' = g \o <<0>>
    /\ dpc' = "done"
    /\ UNCHANGED <<text, ubuff, utf16String, convertor, acquired, released,
                   iconv_ret, ret, produced>>
    /\ UNCHANGED uvars

\* line 227: new_ustr is returned and the locals go out of scope
Return ==
    /\ dpc = "done"
    /\ dpc' = "idle"
    /\ text' = <<>>
    /\ ubuff' = <<>>
    /\ utf16String' = 0
    /\ acquired' = 0
    /\ released' = 0
    /\ iconv_ret' = TRUE
    /\ ret' = TRUE
    /\ produced' = <<>>
    /\ new_ustr' = <<>>
    /\ UNCHANGED convertor
    /\ UNCHANGED uvars

NextD ==
    \/ Enter
    \/ SourceEmpty
    \/ IconvOpen
    \/ IconvOpenFails
    \/ Iconv
    \/ IconvClose
    \/ U8Return
    \/ SkipBOM
    \/ Fallback
    \/ Wrap
    \/ Return

Spec == Init /\ [][NextU]_vars

SpecDecode == Init /\ [][NextD]_vars

\* ----------------------------------------------------------------- claims
Content(str) == SubSeq(str, 1, Len(str) - 1)
Min(a, b) == IF a <= b THEN a ELSE b
This == last.pre[last.r]
Arg == last.pre[last.s]

SentinelOK(str) == Len(str) >= 1 /\ str[Len(str)] = 0
ReturnsUString ==
    \/ last.op \in {"ctor", "ctor_ptr", "append_unit", "append", "plus"}
    \/ last.op = "substr" /\ last.status = "ok"

\* C1: the storage of every live ustring, the objects u and v and the object
\* a call returned, is non-empty and ends with the unit 0.
C1_SentinelInvariant ==
    /\ \A r \in Regs : SentinelOK(bufs[r])
    /\ ReturnsUString => SentinelOK(last.val)

\* C1 witness: a unit 0 was appended to an object that already held units,
\* and the object still has its terminator behind it.
C1_Witness ==
    /\ last.op = "append_unit"
    /\ last.c = 0
    /\ length(This) >= 1
    /\ length(bufs[last.r]) = length(This) + 1

\* C2 as claimed: for pos < length() and every n, substr(pos, n) returns
\* min(n, length() - pos) units, unit i being unit pos + i of the object.
C2_SubstrClamps ==
    (last.op = "substr" /\ last.pos < length(This)) =>
        /\ last.status = "ok"
        /\ length(last.val) = Min(last.n, length(This) - last.pos)
        /\ \A i \in 0..(length(last.val) - 1) :
              At(last.val, i) = At(This, last.pos + i)

\* C3 as claimed: find with an empty pattern returns from, for from <=
\* length().
C3_EmptyPatternReturnsFrom ==
    (last.op = "find" /\ empty(Arg) /\ last.pos <= length(This)) =>
        last.idx = last.pos

\* C4 as claimed: find([A,B], 0) on [A,A,B] returns 1 for distinct A and B.
C4_RepeatedPrefixMatch ==
    (/\ last.op = "find"
     /\ last.pos = 0
     /\ \E A \in Units, B \in Units :
           /\ A # B
           /\ This = <<A, A, B, 0>>
           /\ Arg = <<A, B, 0>>) =>
        last.idx = 1

\* C5 as claimed: when the transcoder cannot be opened or fails, the ustring
\* returned for a non-empty text holds one unit for each byte of the text,
\* the byte zero-extended.  Stated for the texts without a zero byte, for
\* which a zero-terminated run of units can hold every byte.
C5_FallbackWidens ==
    (/\ dpc = "done"
     /\ text # <<>>
     /\ \A i \in 1..Len(text) : text[i] # 0
     /\ ~ret) =>
        new_ustr = [i \in 1..Len(text) |-> text[i]] \o <<0>>

\* C6 as claimed: MakeStandardString returns length() bytes, byte i being
\* '?' for a unit above 0xFF and the unit otherwise.
C6_EncodeEveryUnit ==
    last.op = "encode" =>
        /\ Len(last.val) = length(This)
        /\ \A i \in 1..Len(last.val) :
              last.val[i] = IF This[i] > 255 THEN 63 ELSE This[i]

\* C7: substr(pos, n) with pos >= length() ends with out_of_range for every
\* n, returns no object and leaves u and v as they were.
C7_SubstrOutOfRange ==
    (last.op = "substr" /\ last.pos >= length(This)) =>
        /\ last.status = "out_of_range"
        /\ last.val = <<>>
        /\ bufs = last.pre

\* C7 witness: substr was called with pos == length() on an object that
\* holds units, with n the rest-of-string value, and ended with out_of_range.
C7_Witness ==
    /\ last.op = "substr"
    /\ length(This) >= 1
    /\ last.pos = length(This)
    /\ last.n = SIZE_MAX
    /\ last.status = "out_of_range"

\* C8: an execution of MakeUnicodeString acquires the handle at most once,
\* every handle it acquired is released by the time UTF8ToUTF16 has returned
\* (so before the fallback runs and before MakeUnicodeString returns), no
\* handle is acquired for an empty text, and no handle of an earlier
\* execution is open.
C8_HandleLifecycle ==
    /\ acquired \in {0, 1}
    /\ released <= acquired
    /\ convertor = acquired - released
    /\ dpc \in {"idle", "converted", "wrap", "done"} =>
          (convertor = 0 /\ released = acquired)
    /\ (dpc # "idle" /\ text = <<>>) => acquired = 0
    /\ dpc = "iconv" => convertor = 1

\* C8 witness: the conversion failed after the handle was acquired, and the
\* function is done with the handle released once.
C8_Witness ==
    /\ dpc = "done"
    /\ ~ret
    /\ acquired = 1
    /\ released = 1
    /\ convertor = 0

\* the units of seq in front of its first 0
UpToZero(seq) ==
    LET zeros == {k \in 1..Len(seq) : seq[k] = 0}
    IN  IF zeros = {}
        THEN seq
        ELSE SubSeq(seq, 1, (CHOOSE k \in zeros : \A m \in zeros : k <= m) - 1)

C10_FindSound ==
    (last.op = "find" /\ ~empty(Arg) /\ last.idx # npos) =>
        /\ last.idx >= last.pos
        /\ last.idx + length(Arg) <= length(This)
        /\ \A i \in 0..(length(Arg) - 1) :
              At(This, last.idx + i) = At(Arg, i)

\* C10 witness: a pattern of two units was found at index 1 by a scan from
\* index 0, whose first unit did not match.
C10_Witness ==
    /\ last.op = "find"
    /\ length(Arg) = 2
    /\ last.pos = 0
    /\ last.idx = 1

====
